---- MODULE Spec2Model ----
(***************************************************************************)
(* A model of pkg/shardddl/optimism/keeper.go: the LockKeeper (the         *)
(* registry of DDL locks) and the TableKeeper (the registry of the         *)
(* upstream tables of every task), with the DDL lock's trySync taken from  *)
(* the design document, since lock.go is not among the sources.            *)
(***************************************************************************)
EXTENDS Integers, Sequences, FiniteSets, TLC

\* Sources are numbered in the lexicographic order of their identifiers
\* ("mysql-replica-1" < "mysql-replica-2" < ...), so that < on the numbers is
\* Go's < on the strings.
MaxSources == 2

Sources == 1..MaxSources

Tasks == {"task", "test"}

UpSchemas == {"db"}

UpTables == {"tbl-1"}

VARIABLES
    locks,    \* LockKeeper.locks: lockID -> Lock
    tables,   \* TableKeeper.tables: task -> source -> SourceTables
    last,     \* the last call: its name and what it returned
    infos,    \* the persisted change reports: (task, source, schema, table) -> Info
    replay,   \* the recovery replay: its phase and the reports still to replay
    snap,     \* the map a caller got from Locks(), and what it shares with locks
    etcd,     \* the store besides infos: revision, table sets, operations
    mu,       \* LockKeeper.mu: the goroutine that holds it and those that read-hold it
    calls     \* every goroutine's call of a LockKeeper method: where it is, its locals

vars == <<locks, tables, last, infos, replay, snap, etcd, mu, calls>>

\* What the operations of the two keepers never touch.
aux == <<snap, etcd, mu, calls>>

----------------------------------------------------------------------------
\* Go maps as functions whose domain is the set of keys present.

EmptyMap == [k \in {} |-> k]

\* No caller holds a map from Locks().
NoSnap == [taken |-> FALSE, alias |-> FALSE, m |-> EmptyMap, shared |-> {}]

\* The store before the first write.
NoWrite == [op |-> "none"]

EmptyStore == [rev |-> 0, sts |-> EmptyMap, ops |-> EmptyMap, write |-> NoWrite]

\* One goroutine for every source.
Procs == Sources

\* sync.RWMutex, not held.
None == 0

FreeMutex == [writer |-> None, readers |-> {}]

\* A goroutine that is in no call.
Idle == [pc |-> "idle"]

AuxInit ==
    /\ snap = NoSnap
    /\ etcd = EmptyStore
    /\ mu = FreeMutex
    /\ calls = [p \in Procs |-> Idle]

MapPut(m, k, v) == [x \in DOMAIN m \cup {k} |-> IF x = k THEN v ELSE m[x]]

MapDelete(m, k) == [x \in DOMAIN m \ {k} |-> m[x]]

----------------------------------------------------------------------------
\* SourceTables: the upstream tables of one source of one task.

NewSourceTables(task, source, tbls) ==
    [Task |-> task, Source |-> source, Tables |-> tbls, IsDeleted |-> FALSE]

\* SourceTables.AddTable: the changed value and whether the table was added.
SourceTablesAddTable(st, schema, table) ==
    LET t1 == IF schema \in DOMAIN st.Tables
              THEN st.Tables
              ELSE MapPut(st.Tables, schema, {})
    IN IF table \in t1[schema]
       THEN [st |-> [st EXCEPT !.Tables = t1], ret |-> FALSE]
       ELSE [st |-> [st EXCEPT !.Tables = [t1 EXCEPT ![schema] = @ \cup {table}]],
             ret |-> TRUE]

\* SourceTables.RemoveTable: the changed value and whether the table was removed.
SourceTablesRemoveTable(st, schema, table) ==
    IF schema \notin DOMAIN st.Tables THEN [st |-> st, ret |-> FALSE]
    ELSE IF table \notin st.Tables[schema] THEN [st |-> st, ret |-> FALSE]
    ELSE [st |-> [st EXCEPT !.Tables = [@ EXCEPT ![schema] = @ \ {table}]],
          ret |-> TRUE]

----------------------------------------------------------------------------
\* TableKeeper

NewTableKeeper == EmptyMap

\* Init: the loop over stm, one task at a time, into a fresh map.
RECURSIVE InitLoop(_, _, _)
InitLoop(acc, stm, todo) ==
    IF todo = {} THEN acc
    ELSE LET task == CHOOSE t \in todo : TRUE
             a1 == IF task \in DOMAIN acc THEN acc ELSE MapPut(acc, task, EmptyMap)
             a2 == [a1 EXCEPT ![task] =
                      [s \in DOMAIN @ \cup DOMAIN stm[task] |->
                          IF s \in DOMAIN stm[task] THEN stm[task][s] ELSE @[s]]]
         IN InitLoop(a2, stm, todo \ {task})

MutInitKeepsOld(tbls, stm) ==
    [tables |-> InitLoop(tbls, stm, DOMAIN stm), ret |-> "none"]

TableKeeperInit(tbls, stm) ==
    [tables |-> InitLoop(EmptyMap, stm, DOMAIN stm), ret |-> "none"]

MutUpdateDropsTask(tbls, st) ==
    IF st.IsDeleted
    THEN IF st.Task \notin DOMAIN tbls THEN [tables |-> tbls, ret |-> FALSE]
         ELSE IF st.Source \notin DOMAIN tbls[st.Task] THEN [tables |-> tbls, ret |-> FALSE]
         ELSE [tables |-> MapDelete(tbls, st.Task), ret |-> TRUE]
    ELSE LET t1 == IF st.Task \in DOMAIN tbls THEN tbls ELSE MapPut(tbls, st.Task, EmptyMap)
         IN [tables |-> [t1 EXCEPT ![st.Task] = MapPut(@, st.Source, st)], ret |-> TRUE]

TableKeeperUpdate(tbls, st) ==
    IF st.IsDeleted
    THEN IF st.Task \notin DOMAIN tbls THEN [tables |-> tbls, ret |-> FALSE]
         ELSE IF st.Source \notin DOMAIN tbls[st.Task] THEN [tables |-> tbls, ret |-> FALSE]
         ELSE [tables |-> [tbls EXCEPT ![st.Task] = MapDelete(@, st.Source)], ret |-> TRUE]
    ELSE LET t1 == IF st.Task \in DOMAIN tbls THEN tbls ELSE MapPut(tbls, st.Task, EmptyMap)
         IN [tables |-> [t1 EXCEPT ![st.Task] = MapPut(@, st.Source, st)], ret |-> TRUE]

MutAddTableCreatesTask(tbls, task, source, schema, table) ==
    LET t0 == IF task \in DOMAIN tbls THEN tbls ELSE MapPut(tbls, task, EmptyMap)
        t1 == IF source \in DOMAIN t0[task] THEN t0
              ELSE [t0 EXCEPT ![task] =
                       MapPut(@, source, NewSourceTables(task, source, EmptyMap))]
        r  == SourceTablesAddTable(t1[task][source], schema, table)
    IN [tables |-> [t1 EXCEPT ![task][source] = r.st], ret |-> r.ret]

MutAddTableAlwaysAdded(tbls, task, source, schema, table) ==
    IF task \notin DOMAIN tbls THEN [tables |-> tbls, ret |-> FALSE]
    ELSE LET t1 == IF source \in DOMAIN tbls[task] THEN tbls
                   ELSE [tbls EXCEPT ![task] =
                            MapPut(@, source, NewSourceTables(task, source, EmptyMap))]
             r  == SourceTablesAddTable(t1[task][source], schema, table)
         IN [tables |-> [t1 EXCEPT ![task][source] = r.st], ret |-> TRUE]

TableKeeperAddTable(tbls, task, source, schema, table) ==
    IF task \notin DOMAIN tbls THEN [tables |-> tbls, ret |-> FALSE]
    ELSE LET t1 == IF source \in DOMAIN tbls[task] THEN tbls
                   ELSE [tbls EXCEPT ![task] =
                            MapPut(@, source, NewSourceTables(task, source, EmptyMap))]
             r  == SourceTablesAddTable(t1[task][source], schema, table)
         IN [tables |-> [t1 EXCEPT ![task][source] = r.st], ret |-> r.ret]

\* A RemoveTable that drops the entry of a source left with no table.
MutRemoveTableDropsSource(tbls, task, source, schema, table) ==
    IF task \notin DOMAIN tbls THEN [tables |-> tbls, ret |-> FALSE]
    ELSE IF source \notin DOMAIN tbls[task] THEN [tables |-> tbls, ret |-> FALSE]
    ELSE LET r == SourceTablesRemoveTable(tbls[task][source], schema, table)
         IN [tables |-> IF \A sc \in DOMAIN r.st.Tables : r.st.Tables[sc] = {}
                        THEN [tbls EXCEPT ![task] = MapDelete(@, source)]
                        ELSE [tbls EXCEPT ![task][source] = r.st],
             ret |-> r.ret]

TableKeeperRemoveTable(tbls, task, source, schema, table) ==
    IF task \notin DOMAIN tbls THEN [tables |-> tbls, ret |-> FALSE]
    ELSE IF source \notin DOMAIN tbls[task] THEN [tables |-> tbls, ret |-> FALSE]
    ELSE LET r == SourceTablesRemoveTable(tbls[task][source], schema, table)
         IN [tables |-> [tbls EXCEPT ![task][source] = r.st], ret |-> r.ret]

\* SourceTablesSlice.Less on two elements.
MutLessDescending(a, b) == a.Source > b.Source

Less(a, b) == a.Source < b.Source

\* sort.Sort(ret): the keys are distinct, so every correct sort driven by Less
\* gives the same sequence; an insertion sort computes it.
RECURSIVE Insert(_, _)
Insert(s, x) ==
    IF s = <<>> THEN <<x>>
    ELSE IF Less(x, Head(s)) THEN <<x>> \o s
    ELSE <<Head(s)>> \o Insert(Tail(s), x)

RECURSIVE Sort(_)
Sort(s) == IF s = <<>> THEN <<>> ELSE Insert(Sort(Tail(s)), Head(s))

\* The orders in which a range loop may visit the keys of a map.
IterationOrders(m) ==
    {o \in [1..Cardinality(DOMAIN m) -> DOMAIN m] :
        \A i, j \in DOMAIN o : i # j => o[i] # o[j]}

\* SourceTablesMapToSlice, for one iteration order of the map.
SourceTablesMapToSlice(stm, order) ==
    Sort([i \in DOMAIN order |-> stm[order[i]]])

\* FindTables: nil (the empty slice) for an unknown task.
TableKeeperFindTables(tbls, task, order) ==
    IF task \notin DOMAIN tbls THEN <<>>
    ELSE SourceTablesMapToSlice(tbls[task], order)

----------------------------------------------------------------------------
\* Views of the table registry.

\* The (task, source, table set) entries of the table registry.
Entries(tbls) ==
    UNION {{<<t, s, tbls[t][s]>> : s \in DOMAIN tbls[t]} : t \in DOMAIN tbls}

HasTable(tbls, task, source, schema, table) ==
    /\ task \in DOMAIN tbls
    /\ source \in DOMAIN tbls[task]
    /\ schema \in DOMAIN tbls[task][source].Tables
    /\ table \in tbls[task][source].Tables[schema]

SourcesOfTask(tbls, task) == IF task \in DOMAIN tbls THEN DOMAIN tbls[task] ELSE {}

OrdersOfTask(tbls, task) ==
    IterationOrders(IF task \in DOMAIN tbls THEN tbls[task] ELSE EmptyMap)

----------------------------------------------------------------------------
\* The inputs of the TableKeeper's operations.

TablesValues == [UpSchemas -> SUBSET UpTables]

FullTables == [s \in UpSchemas |-> UpTables]

SourceTablesInputs ==
    {[Task |-> t, Source |-> s, Tables |-> tv, IsDeleted |-> d] :
        t \in Tasks, s \in Sources, tv \in TablesValues, d \in BOOLEAN}

\* What GetAllSourceTables reads from the store: task -> source -> SourceTables,
\* every value under its own keys and none of them deleted.
StmOf(ts) ==
    {[t \in ts |-> [s \in f[t] |-> NewSourceTables(t, s, FullTables)]] :
        f \in [ts -> SUBSET Sources]}

StmInputs == UNION {StmOf(ts) : ts \in SUBSET Tasks}

----------------------------------------------------------------------------
\* The TableKeeper's operations as actions.

TKInit(stm) ==
    /\ tables' = TableKeeperInit(tables, stm).tables
    /\ last' = [op |-> "Init", stm |-> stm]
    /\ UNCHANGED <<locks, infos, replay, aux>>

Update(st) ==
    /\ tables' = TableKeeperUpdate(tables, st).tables
    /\ last' = [op |-> "Update", task |-> st.Task, deleted |-> st.IsDeleted,
                ret |-> TableKeeperUpdate(tables, st).ret]
    /\ UNCHANGED <<locks, infos, replay, aux>>

AddTable(task, source, schema, table) ==
    /\ tables' = TableKeeperAddTable(tables, task, source, schema, table).tables
    /\ last' = [op |-> "AddTable", task |-> task,
                ret |-> TableKeeperAddTable(tables, task, source, schema, table).ret]
    /\ UNCHANGED <<locks, infos, replay, aux>>

RemoveTable(task, source, schema, table) ==
    /\ tables' = TableKeeperRemoveTable(tables, task, source, schema, table).tables
    /\ last' = [op |-> "RemoveTable", task |-> task,
                ret |-> TableKeeperRemoveTable(tables, task, source, schema, table).ret]
    /\ UNCHANGED <<locks, infos, replay, aux>>

FindTables(task) ==
    /\ \E order \in IterationOrders(IF task \in DOMAIN tables THEN tables[task] ELSE EmptyMap) :
          last' = [op |-> "FindTables", task |-> task,
                   ret |-> TableKeeperFindTables(tables, task, order)]
    /\ UNCHANGED <<locks, tables, infos, replay, aux>>

InitTables ==
    /\ locks = EmptyMap
    /\ tables = NewTableKeeper
    /\ last = [op |-> "New"]
    /\ infos = EmptyMap
    /\ replay = [phase |-> "idle", todo |-> {}]
    /\ AuxInit

NextTables ==
    \/ \E stm \in StmInputs : TKInit(stm)
    \/ \E st \in SourceTablesInputs : Update(st)
    \/ \E t \in Tasks, s \in Sources, sc \in UpSchemas, tb \in UpTables : AddTable(t, s, sc, tb)
    \/ \E t \in Tasks, s \in Sources, sc \in UpSchemas, tb \in UpTables : RemoveTable(t, s, sc, tb)
    \/ \E t \in Tasks : FindTables(t)

SpecTables == InitTables /\ [][NextTables]_vars

----------------------------------------------------------------------------
\* Schemas (the TableInfo of a report) as opaque comparable data: the type of
\* every column the table has.

Columns == {"c1"}

ColumnTypes == {"INT", "VARCHAR"}

TableInfos == UNION {[cs -> ColumnTypes] : cs \in SUBSET Columns}

Nil == "nil"

ErrConflict == "schema conflict"

\* The schema after defines everything the joined schema defines, and as
\* the joined schema defines it.
Extends(after, joined) ==
    \A c \in DOMAIN joined : c \in DOMAIN after /\ after[c] = joined[c]

----------------------------------------------------------------------------
\* The DDL lock (design document, section 4.3).

SourcesOf(sts) == {sts[i].Source : i \in DOMAIN sts}

\* A new lock: the joined schema is the report's pre-change schema, and every
\* source of the table sets is a participant that is still pending.
NewLock(ID, task, ti, sts) ==
    [ID |-> ID, Task |-> task, joined |-> ti,
     status |-> [s \in SourcesOf(sts) |-> FALSE]]

\* trySync: the lock afterwards, the DDLs to run and the error.
LockTrySync(l, source, upSchema, upTable, ddls, newTI, sts) ==
    LET refreshed == [s \in SourcesOf(sts) |->
                         IF s \in DOMAIN l.status THEN l.status[s] ELSE FALSE]
    IN IF newTI = l.joined
       THEN [lock |-> [l EXCEPT !.status = [refreshed EXCEPT ![source] = TRUE]],
             newDDLs |-> ddls, err |-> Nil]
       ELSE IF Extends(newTI, l.joined)
       THEN [lock |-> [l EXCEPT !.joined = newTI,
                                !.status = [s \in SourcesOf(sts) |-> s = source]],
             newDDLs |-> ddls, err |-> Nil]
       ELSE [lock |-> [l EXCEPT !.status = [refreshed EXCEPT ![source] = FALSE]],
             newDDLs |-> <<>>, err |-> ErrConflict]

\* Every participant is reconciled with the joined schema.
Synced(l) == \A s \in DOMAIN l.status : l.status[s]

----------------------------------------------------------------------------
\* LockKeeper

NewLockKeeper == EmptyMap

\* The backquote that dbutil.TableName puts around a name; a TLA+ string
\* cannot hold that character, and the apostrophe stands for it.
Quote == "'"

\* dbutil.TableName: the quoted schema, a dot, the quoted table.
TableName(schema, table) ==
    Quote \o schema \o Quote \o "." \o Quote \o table \o Quote

MutLockIDWithSource(info) ==
    info.Task \o "-" \o TableName(info.DownSchema, info.DownTable)
        \o "-" \o ToString(info.Source)

genDDLLockID(info) ==
    info.Task \o "-" \o TableName(info.DownSchema, info.DownTable)

MutTrySyncAlwaysNewLock(lks, info, sts) ==
    LET lockID == genDDLLockID(info)
        lks1 == MapPut(lks, lockID, NewLock(lockID, info.Task, info.TableInfoBefore, sts))
        r == LockTrySync(lks1[lockID], info.Source, info.UpSchema, info.UpTable,
                         info.DDLs, info.TableInfoAfter, sts)
    IN [locks |-> [lks1 EXCEPT ![lockID] = r.lock],
        lockID |-> lockID, newDDLs |-> r.newDDLs, err |-> r.err]

MutTrySyncNoDDLs(lks, info, sts) ==
    LET lockID == genDDLLockID(info)
        lks1 == IF lockID \in DOMAIN lks THEN lks
                ELSE MapPut(lks, lockID,
                            NewLock(lockID, info.Task, info.TableInfoBefore, sts))
        r == LockTrySync(lks1[lockID], info.Source, info.UpSchema, info.UpTable,
                         info.DDLs, info.TableInfoAfter, sts)
    IN [locks |-> [lks1 EXCEPT ![lockID] = r.lock],
        lockID |-> lockID, newDDLs |-> <<>>, err |-> r.err]

\* A TrySync that returns no identifier with an error.
MutTrySyncNoIDOnError(lks, info, sts) ==
    LET lockID == genDDLLockID(info)
        lks1 == IF lockID \in DOMAIN lks THEN lks
                ELSE MapPut(lks, lockID,
                            NewLock(lockID, info.Task, info.TableInfoBefore, sts))
        r == LockTrySync(lks1[lockID], info.Source, info.UpSchema, info.UpTable,
                         info.DDLs, info.TableInfoAfter, sts)
    IN [locks |-> [lks1 EXCEPT ![lockID] = r.lock],
        lockID |-> IF r.err = Nil THEN lockID ELSE "",
        newDDLs |-> r.newDDLs, err |-> r.err]

\* A TrySync that drops the lock once every source is reconciled.
MutTrySyncRetiresSynced(lks, info, sts) ==
    LET lockID == genDDLLockID(info)
        lks1 == IF lockID \in DOMAIN lks THEN lks
                ELSE MapPut(lks, lockID,
                            NewLock(lockID, info.Task, info.TableInfoBefore, sts))
        r == LockTrySync(lks1[lockID], info.Source, info.UpSchema, info.UpTable,
                         info.DDLs, info.TableInfoAfter, sts)
    IN [locks |-> IF Synced(r.lock) THEN MapDelete(lks1, lockID)
                  ELSE [lks1 EXCEPT ![lockID] = r.lock],
        lockID |-> lockID, newDDLs |-> r.newDDLs, err |-> r.err]

\* TrySync: the registry afterwards and the three values returned.
LockKeeperTrySync(lks, info, sts) ==
    LET lockID == genDDLLockID(info)
        lks1 == IF lockID \in DOMAIN lks THEN lks
                ELSE MapPut(lks, lockID,
                            NewLock(lockID, info.Task, info.TableInfoBefore, sts))
        r == LockTrySync(lks1[lockID], info.Source, info.UpSchema, info.UpTable,
                         info.DDLs, info.TableInfoAfter, sts)
    IN [locks |-> [lks1 EXCEPT ![lockID] = r.lock],
        lockID |-> lockID, newDDLs |-> r.newDDLs, err |-> r.err]

\* A RemoveLock that reports a removal whether the lock existed or not.
MutRemoveLockAlwaysTrue(lks, lockID) ==
    [locks |-> MapDelete(lks, lockID), ret |-> TRUE]

LockKeeperRemoveLock(lks, lockID) ==
    [locks |-> MapDelete(lks, lockID), ret |-> lockID \in DOMAIN lks]

\* The nil *Lock.
NilLock == [nil |-> TRUE]

\* FindLock: the lock, or nil.
FindLock(lks, lockID) == IF lockID \in DOMAIN lks THEN lks[lockID] ELSE NilLock

FindLockByInfo(lks, info) == FindLock(lks, genDDLLockID(info))

\* A Clear that keeps the map and its locks.
MutClearKeepsLocks(lks) == lks

LockKeeperClear(lks) == EmptyMap

\* A Locks that hands out the registry's own map.
MutLocksReturnsMap(lks) == [m |-> lks, fresh |-> FALSE]

\* Locks: a map made by the call, with every key of the registry and the
\* pointer to its lock.
LockKeeperLocks(lks) == [m |-> [k \in DOMAIN lks |-> lks[k]], fresh |-> TRUE]

----------------------------------------------------------------------------
\* The inputs of the LockKeeper's operations.

LockTask == "task"

DownSchema == "foo"

DownTables == {"bar", "baz"}

InfoUpTables == {"bar-1"}

DDLsValues == {<<"ALTER TABLE bar ADD COLUMN c1 INT">>,
               <<"ALTER TABLE bar ADD COLUMN c1 VARCHAR(10)">>}

InfosFor(downTables) ==
    {[Task |-> LockTask, Source |-> s, UpSchema |-> "foo-1", UpTable |-> ut,
      DownSchema |-> DownSchema, DownTable |-> dt, DDLs |-> d,
      TableInfoBefore |-> b, TableInfoAfter |-> a] :
        s \in Sources, ut \in InfoUpTables, dt \in DownTables \cap downTables,
        d \in DDLsValues, b \in TableInfos, a \in TableInfos}

InfoInputs == InfosFor(DownTables)

LockIDs == {genDDLLockID(i) : i \in InfoInputs}

\* One order in which a range loop may visit the keys of a map.
RECURSIVE OneOrder(_)
OneOrder(keys) ==
    IF keys = {} THEN <<>>
    ELSE LET k == CHOOSE x \in keys : TRUE
         IN <<k>> \o OneOrder(keys \ {k})

\* The table sets the caller hands to TrySync: those of the report's task.
CurrentTableSets(task) ==
    TableKeeperFindTables(tables, task, OneOrder(SourcesOfTask(tables, task)))

----------------------------------------------------------------------------
\* The LockKeeper's operations as actions.

\* A source reports only after its table set was recorded for the task.
CanSync(info) == info.Source \in SourcesOfTask(tables, info.Task)

\* What TrySync does and returns for a report in the current state.
SyncResult(info) == LockKeeperTrySync(locks, info, CurrentTableSets(info.Task))

TrySyncCall(info) ==
    /\ CanSync(info)
    /\ LET r == SyncResult(info)
       IN /\ locks' = r.locks
          /\ last' = [op |-> "TrySync", lockID |-> r.lockID,
                      newDDLs |-> r.newDDLs, err |-> r.err]
    /\ UNCHANGED tables

TrySync(info) == TrySyncCall(info) /\ UNCHANGED <<infos, replay, aux>>

RemoveLockCall(lockID) ==
    /\ locks' = LockKeeperRemoveLock(locks, lockID).locks
    /\ last' = [op |-> "RemoveLock", lockID |-> lockID,
                ret |-> LockKeeperRemoveLock(locks, lockID).ret]
    /\ UNCHANGED tables

RemoveLock(lockID) == RemoveLockCall(lockID) /\ UNCHANGED <<infos, replay, aux>>

\* Clear returns nothing; last keeps the identifiers it discarded.
ClearCall ==
    /\ locks' = LockKeeperClear(locks)
    /\ last' = [op |-> "Clear", discarded |-> DOMAIN locks]
    /\ UNCHANGED tables

Clear == ClearCall /\ UNCHANGED <<infos, replay, aux>>

\* The lock registry alone: the table registry holds every source of the task.
Init ==
    /\ locks = NewLockKeeper
    /\ tables = [t \in {LockTask} |->
                    [s \in Sources |-> NewSourceTables(t, s, FullTables)]]
    /\ last = [op |-> "New"]
    /\ infos = EmptyMap
    /\ replay = [phase |-> "idle", todo |-> {}]
    /\ AuxInit

Next ==
    \/ \E info \in InfoInputs : TrySync(info)
    \/ \E id \in LockIDs : RemoveLock(id)
    \/ Clear

Spec == Init /\ [][Next]_vars

\* Both registries: reports for one downstream table, while sources join and
\* leave the task.
InitBoth ==
    /\ locks = NewLockKeeper
    /\ tables = NewTableKeeper
    /\ last = [op |-> "New"]
    /\ infos = EmptyMap
    /\ replay = [phase |-> "idle", todo |-> {}]
    /\ AuxInit

NextBoth ==
    \/ \E info \in InfosFor({"bar"}) : TrySync(info)
    \/ \E id \in LockIDs : RemoveLock(id)
    \/ Clear
    \/ \E stm \in StmOf({LockTask}) : TKInit(stm)
    \/ \E s \in Sources, d \in BOOLEAN :
          Update([Task |-> LockTask, Source |-> s, Tables |-> FullTables, IsDeleted |-> d])
    \/ \E s \in Sources, sc \in UpSchemas, tb \in UpTables : AddTable(LockTask, s, sc, tb)
    \/ \E s \in Sources, sc \in UpSchemas, tb \in UpTables : RemoveTable(LockTask, s, sc, tb)

SpecBoth == InitBoth /\ [][NextBoth]_vars

\* Recovery: the table registry is reinitialized, the lock registry cleared,
\* and every persisted report replayed through TrySync, in any order.
InfoKey(info) == <<info.Task, info.Source, info.UpSchema, info.UpTable>>

\* The reports a source may have persisted: every source starts from the same
\* empty downstream table.
ReplayInfos ==
    {i \in InfoInputs : /\ i.DDLs = <<"ALTER TABLE bar ADD COLUMN c1 INT">>
                        /\ i.TableInfoBefore = EmptyMap}

InfoMapOf(f) ==
    [k \in {InfoKey(f[s]) : s \in DOMAIN f} |->
        f[CHOOSE s \in DOMAIN f : InfoKey(f[s]) = k]]

\* The persisted reports: at most one, the latest, for every source and table.
InfoMaps ==
    UNION {{InfoMapOf(f) : f \in {g \in [ss -> ReplayInfos] :
                                     \A s \in ss : g[s].Source = s}} :
           ss \in SUBSET Sources}

ReplayStart ==
    /\ replay.phase # "running"
    /\ ClearCall
    /\ replay' = [phase |-> "running", todo |-> {infos[k] : k \in DOMAIN infos}]
    /\ UNCHANGED <<infos, aux>>

ReplayStep ==
    /\ replay.phase = "running"
    /\ replay.todo # {}
    /\ \E info \in replay.todo :
          /\ TrySyncCall(info)
          /\ replay' = [replay EXCEPT !.todo = @ \ {info}]
    /\ UNCHANGED <<infos, aux>>

ReplayEnd ==
    /\ replay.phase = "running"
    /\ replay.todo = {}
    /\ replay' = [replay EXCEPT !.phase = "done"]
    /\ UNCHANGED <<locks, tables, last, infos, aux>>

InitReplay ==
    /\ locks = NewLockKeeper
    /\ tables = [t \in {LockTask} |->
                    [s \in Sources |-> NewSourceTables(t, s, FullTables)]]
    /\ last = [op |-> "New"]
    /\ infos \in InfoMaps
    /\ replay = [phase |-> "idle", todo |-> {}]
    /\ AuxInit

NextReplay == ReplayStart \/ ReplayStep \/ ReplayEnd

SpecReplay == InitReplay /\ [][NextReplay]_vars

\* The replay of a set of reports in one fixed order.
RECURSIVE ReplayInOrder(_, _)
ReplayInOrder(lks, todo) ==
    IF todo = {} THEN lks
    ELSE LET info == CHOOSE i \in todo : TRUE
         IN ReplayInOrder(
                LockKeeperTrySync(lks, info, CurrentTableSets(info.Task)).locks,
                todo \ {info})

----------------------------------------------------------------------------
\* The claims.

SameTarget(i, j) ==
    /\ i.Task = j.Task
    /\ i.DownSchema = j.DownSchema
    /\ i.DownTable = j.DownTable

\* The joined schema a report meets: that of its lock, or its own pre-change
\* schema when the lock is yet to be created.
JoinedFor(info) ==
    IF genDDLLockID(info) \in DOMAIN locks
    THEN locks[genDDLLockID(info)].joined
    ELSE info.TableInfoBefore

\* C1: a report whose post-change schema conflicts with the joined schema of
\* its lock returns the schema-conflict error, leaves the joined schema as it
\* was, and leaves the lock in the registry, pending: a later report of that
\* source that does not conflict is accepted by the same lock.
C1_Conflict ==
    \A info \in InfoInputs :
        (CanSync(info) /\ ~Extends(info.TableInfoAfter, JoinedFor(info))) =>
            LET id == genDDLLockID(info)
                r == SyncResult(info)
                sts == CurrentTableSets(info.Task)
            IN /\ r.err = ErrConflict
               /\ id \in DOMAIN r.locks
               /\ r.locks[id].joined = JoinedFor(info)
               /\ ~Synced(r.locks[id])
               /\ \A again \in InfoInputs :
                     (/\ again.Source = info.Source
                      /\ SameTarget(again, info)
                      /\ Extends(again.TableInfoAfter, JoinedFor(info))) =>
                         LET r2 == LockKeeperTrySync(r.locks, again, sts)
                         IN /\ r2.err = Nil
                            /\ r2.lockID = id
                            /\ r2.locks[id].joined = again.TableInfoAfter
                            /\ r2.locks[id].status[again.Source]

\* The last report conflicted with a joined schema that another source had
\* extended and is reconciled with.
C1_Witness ==
    /\ last.op = "TrySync"
    /\ last.err = ErrConflict
    /\ last.lockID \in DOMAIN locks
    /\ locks[last.lockID].joined # EmptyMap
    /\ \E s \in DOMAIN locks[last.lockID].status : locks[last.lockID].status[s]

\* C2: a report that extends the joined schema, or matches it, succeeds and
\* returns its DDLs unchanged; a report that matches the joined schema of an
\* existing lock whose other sources are all reconciled leaves the lock
\* synchronized.
C2_CatchUp ==
    \A info \in InfoInputs :
        (CanSync(info) /\ Extends(info.TableInfoAfter, JoinedFor(info))) =>
            LET id == genDDLLockID(info)
                r == SyncResult(info)
                others == SourcesOfTask(tables, info.Task) \ {info.Source}
            IN /\ r.err = Nil
               /\ r.newDDLs = info.DDLs
               /\ r.locks[id].joined = info.TableInfoAfter
               /\ r.locks[id].status[info.Source]
               /\ (/\ id \in DOMAIN locks
                   /\ info.TableInfoAfter = locks[id].joined
                   /\ \A s \in others :
                         s \in DOMAIN locks[id].status /\ locks[id].status[s])
                     => Synced(r.locks[id])

\* Two sources or more are reconciled with a joined schema that has column c1.
C2_Witness ==
    /\ last.op = "TrySync"
    /\ last.err = Nil
    /\ last.newDDLs # <<>>
    /\ last.lockID \in DOMAIN locks
    /\ "c1" \in DOMAIN locks[last.lockID].joined
    /\ Cardinality(DOMAIN locks[last.lockID].status) >= 2
    /\ Synced(locks[last.lockID])

\* C3: the recovery replay ends in the same lock registry (identifiers, joined
\* schemas, statuses) whatever the order of the reports.
C3_ReplayOrderInsensitive ==
    replay.phase = "done" =>
        locks = ReplayInOrder(EmptyMap, {infos[k] : k \in DOMAIN infos})

\* C4: the sources a lock tracks are sources of its task in the table registry.
C4_StatusWithinRegistry ==
    \A id \in DOMAIN locks :
        DOMAIN locks[id].status \subseteq SourcesOfTask(tables, locks[id].Task)

\* Reports with one task, downstream schema and downstream table are given
\* one identifier, whatever their source, upstream table, DDLs and schemas.
\* The identifier reads nothing of the registry, so this is a constant.
SameTargetSameID ==
    \A info, other \in InfoInputs :
        SameTarget(info, other) => genDDLLockID(other) = genDDLLockID(info)

\* C5: after synchronize(report) returns L, every report with the task and
\* the downstream schema and table of that report finds the lock that find(L)
\* finds, and no two locks of the registry have one identifier.
C5_LockID ==
    /\ \A a \in DOMAIN locks : locks[a].ID = a
    /\ SameTargetSameID
    /\ \A info \in InfoInputs :
          CanSync(info) =>
             LET r == SyncResult(info)
                 found == FindLock(r.locks, r.lockID)
             IN /\ found # NilLock
                /\ found.ID = r.lockID
                /\ r.lockID = genDDLLockID(info)
                /\ FindLockByInfo(r.locks, info) = found
                /\ \A other \in InfoInputs :
                      SameTarget(info, other) =>
                         FindLockByInfo(r.locks, other) = found

\* Reports of two sources were resolved to one lock, while another lock is held.
C5_Witness ==
    /\ last.op = "TrySync"
    /\ Cardinality(DOMAIN locks) = 2
    /\ \E s \in DOMAIN locks[last.lockID].status : locks[last.lockID].status[s]
    /\ \E s \in DOMAIN locks[last.lockID].status : ~locks[last.lockID].status[s]

\* C6: apply with the tombstone set removes exactly the (task, source) entry
\* and returns true iff the entry existed; with the tombstone unset it returns
\* true, the entry is the supplied table set, and no other entry changes.
C6_Apply ==
    [][\A st \in SourceTablesInputs :
          (/\ last'.op = "Update"
           /\ st.Task = last'.task
           /\ st.IsDeleted = last'.deleted
           /\ Update(st)) =>
          IF st.IsDeleted
          THEN /\ last'.ret = (<<st.Task, st.Source>> \in
                                  {<<e[1], e[2]>> : e \in Entries(tables)})
               /\ Entries(tables') =
                     {e \in Entries(tables) : ~(e[1] = st.Task /\ e[2] = st.Source)}
               /\ DOMAIN tables' = DOMAIN tables
          ELSE /\ last'.ret = TRUE
               /\ tables'[st.Task][st.Source] = st
               /\ Entries(tables') =
                     {e \in Entries(tables) : ~(e[1] = st.Task /\ e[2] = st.Source)}
                        \cup {<<st.Task, st.Source, st>>}
               /\ DOMAIN tables' = DOMAIN tables \cup {st.Task}]_vars

\* A tombstone removed one source of a task that has another one left.
C6_Witness ==
    /\ last.op = "Update"
    /\ last.deleted
    /\ last.ret = TRUE
    /\ Cardinality(SourcesOfTask(tables, last.task)) >= 1

\* C7: addTable returns true exactly for a table that a known task did not
\* have, and an identical second call returns false and changes nothing;
\* removeTable returns true exactly for a present table, and an identical
\* second call returns false.
C7_AddRemoveTwice ==
    [][\A t \in Tasks, s \in Sources, sc \in UpSchemas, tb \in UpTables :
          /\ (last'.op = "AddTable" /\ t = last'.task /\ AddTable(t, s, sc, tb)) =>
                /\ last'.ret = (t \in DOMAIN tables /\ ~HasTable(tables, t, s, sc, tb))
                /\ TableKeeperAddTable(tables', t, s, sc, tb)
                      = [tables |-> tables', ret |-> FALSE]
          /\ (last'.op = "RemoveTable" /\ t = last'.task /\ RemoveTable(t, s, sc, tb)) =>
                /\ last'.ret = HasTable(tables, t, s, sc, tb)
                /\ TableKeeperRemoveTable(tables', t, s, sc, tb)
                      = [tables |-> tables', ret |-> FALSE]]_vars

\* removeTable has just removed a table that addTable had added.
C7_Witness ==
    /\ last.op = "RemoveTable"
    /\ last.ret = TRUE
    /\ \E s \in SourcesOfTask(tables, last.task) :
          \E sc \in DOMAIN tables[last.task][s].Tables :
             tables[last.task][s].Tables[sc] = {}

\* C8: addTable and removeTable for a task the registry does not know return
\* false and change nothing: the task is still unknown and listForTask for it
\* is still empty.
C8_UnknownTask ==
    [][\A t \in Tasks, s \in Sources, sc \in UpSchemas, tb \in UpTables :
          (/\ t \notin DOMAIN tables
           /\ last'.op \in {"AddTable", "RemoveTable"}
           /\ t = last'.task
           /\ \/ last'.op = "AddTable" /\ AddTable(t, s, sc, tb)
              \/ last'.op = "RemoveTable" /\ RemoveTable(t, s, sc, tb))
             => /\ last'.ret = FALSE
                /\ tables' = tables
                /\ \A o \in OrdersOfTask(tables', t) :
                      TableKeeperFindTables(tables', t, o) = <<>>]_vars

\* addTable was refused for an unknown task while another task is known.
C8_Witness ==
    /\ last.op = "AddTable"
    /\ last.ret = FALSE
    /\ last.task \notin DOMAIN tables
    /\ DOMAIN tables # {}

\* C9: after reinitialize(S), listForTask of every task of S returns exactly
\* the sources of S[t], each once and with the table set S gives, and every
\* other task is unknown, whatever the registry held before.
C9_Reinitialize ==
    last.op = "Init" =>
        \A t \in Tasks :
           IF t \in DOMAIN last.stm
           THEN \A o \in OrdersOfTask(tables, t) :
                   LET r == TableKeeperFindTables(tables, t, o)
                   IN /\ Len(r) = Cardinality(DOMAIN last.stm[t])
                      /\ {r[i].Source : i \in DOMAIN r} = DOMAIN last.stm[t]
                      /\ \A i \in DOMAIN r : r[i] = last.stm[t][r[i].Source]
           ELSE /\ t \notin DOMAIN tables
                /\ \A o \in OrdersOfTask(tables, t) :
                      TableKeeperFindTables(tables, t, o) = <<>>

\* reinitialize left one task, with two sources or more.
C9_Witness ==
    /\ last.op = "Init"
    /\ Cardinality(DOMAIN tables) = 1
    /\ \E t \in DOMAIN tables : Cardinality(DOMAIN tables[t]) >= 2

\* C10: listForTask returns the table sets of exactly the registered sources
\* of the task in ascending order of source, and nothing for an unknown task.
C10_ListSorted ==
    last.op = "FindTables" =>
        LET r == last.ret
            t == last.task
        IN IF t \notin DOMAIN tables THEN r = <<>>
           ELSE /\ Len(r) = Cardinality(DOMAIN tables[t])
                /\ {r[i] : i \in DOMAIN r} = {tables[t][s] : s \in DOMAIN tables[t]}
                /\ \A i, j \in DOMAIN r : i < j => r[i].Source < r[j].Source

\* listForTask returned two table sets or more.
C10_Witness ==
    /\ last.op = "FindTables"
    /\ Len(last.ret) >= 2

\* C11: remove of an identifier the registry lacks returns false and leaves
\* the registry as it is; remove of one it holds returns true, leaves one lock
\* fewer and every other lock in place, and a second remove of that
\* identifier returns false.
C11_Remove ==
    \A id \in LockIDs :
        LET r == LockKeeperRemoveLock(locks, id)
        IN /\ id \notin DOMAIN locks =>
                 /\ r.ret = FALSE
                 /\ r.locks = locks
           /\ id \in DOMAIN locks =>
                 /\ r.ret = TRUE
                 /\ Cardinality(DOMAIN r.locks) = Cardinality(DOMAIN locks) - 1
                 /\ FindLock(r.locks, id) = NilLock
                 /\ \A other \in DOMAIN locks \ {id} :
                       FindLock(r.locks, other) = locks[other]
                 /\ LockKeeperRemoveLock(r.locks, id).ret = FALSE
                 /\ LockKeeperRemoveLock(r.locks, id).locks = r.locks

\* A remove returned true and left another lock in the registry.
C11_Witness ==
    /\ last.op = "RemoveLock"
    /\ last.ret = TRUE
    /\ DOMAIN locks # {}

----------------------------------------------------------------------------
\* The lock registry with a caller that keeps the map Locks() returned and
\* adds and deletes keys in it.

\* The reports of this specification: every source starts from the empty
\* downstream table and reports the one DDL that adds column c1.
SnapshotInfos ==
    {i \in InfoInputs : /\ i.DDLs = <<"ALTER TABLE bar ADD COLUMN c1 INT">>
                        /\ i.TableInfoBefore = EmptyMap
                        /\ i.TableInfoAfter = [c \in {"c1"} |-> "INT"]}

\* The caller's map after the registry wrote lks2: a map that is the
\* registry's own shows every write; a map of its own shows the writes to the
\* locks it still shares with the registry, through their pointers.
SnapView(lks2) ==
    IF snap.alias
    THEN [snap EXCEPT !.m = lks2, !.shared = DOMAIN lks2]
    ELSE [snap EXCEPT !.m = [k \in DOMAIN snap.m |->
                                IF k \in snap.shared THEN lks2[k] ELSE snap.m[k]]]

SnapTrySync(info) ==
    /\ TrySyncCall(info)
    /\ snap' = SnapView(locks')
    /\ UNCHANGED <<infos, replay, etcd, mu, calls>>

SnapRemoveLock(lockID) ==
    /\ RemoveLockCall(lockID)
    /\ snap' = IF snap.alias
               THEN [snap EXCEPT !.m = locks', !.shared = DOMAIN locks']
               ELSE [snap EXCEPT !.shared = @ \ {lockID}]
    /\ UNCHANGED <<infos, replay, etcd, mu, calls>>

\* Clear gives the registry a new map: a map handed out before is the
\* registry's no longer.
SnapClear ==
    /\ ClearCall
    /\ snap' = [snap EXCEPT !.alias = FALSE, !.shared = {}]
    /\ UNCHANGED <<infos, replay, etcd, mu, calls>>

Locks ==
    /\ LET r == LockKeeperLocks(locks)
       IN /\ snap' = [taken |-> TRUE, alias |-> ~r.fresh, m |-> r.m,
                      shared |-> DOMAIN r.m]
          /\ last' = [op |-> "Locks", ret |-> DOMAIN r.m]
    /\ UNCHANGED <<locks, tables, infos, replay, etcd, mu, calls>>

\* The caller deletes a key of the map it holds.
SnapDelete(lockID) ==
    /\ snap.taken
    /\ snap' = [snap EXCEPT !.m = MapDelete(@, lockID), !.shared = @ \ {lockID}]
    /\ locks' = IF snap.alias THEN snap'.m ELSE locks
    /\ last' = [op |-> "SnapDelete"]
    /\ UNCHANGED <<tables, infos, replay, etcd, mu, calls>>

\* The caller puts a lock of its own under a key of the map it holds.
SnapPut(lockID) ==
    /\ snap.taken
    /\ snap' = [snap EXCEPT
                  !.m = MapPut(@, lockID,
                               NewLock(lockID, LockTask, EmptyMap,
                                       CurrentTableSets(LockTask))),
                  !.shared = IF snap.alias THEN @ \cup {lockID} ELSE @ \ {lockID}]
    /\ locks' = IF snap.alias THEN snap'.m ELSE locks
    /\ last' = [op |-> "SnapPut"]
    /\ UNCHANGED <<tables, infos, replay, etcd, mu, calls>>

NextSnapshot ==
    \/ \E info \in SnapshotInfos : SnapTrySync(info)
    \/ \E id \in LockIDs : SnapRemoveLock(id)
    \/ SnapClear
    \/ Locks
    \/ \E id \in LockIDs : SnapDelete(id)
    \/ \E id \in LockIDs : SnapPut(id)

SpecSnapshot == Init /\ [][NextSnapshot]_vars

\* C12: the keys of a map that Locks() returned are not changed by a later
\* TrySync, RemoveLock or Clear of the registry, and adding or deleting keys
\* in that map does not change what FindLock returns from the registry.
C12_Snapshot ==
    [][/\ last'.op = "Locks" => DOMAIN snap'.m = DOMAIN locks
       /\ (snap.taken /\ last'.op \in {"TrySync", "RemoveLock", "Clear"}) =>
             DOMAIN snap'.m = DOMAIN snap.m
       /\ last'.op \in {"SnapPut", "SnapDelete"} =>
             \A id \in LockIDs : FindLock(locks', id) = FindLock(locks, id)]_vars

\* The map a caller holds has a key the registry removed since, and lacks the
\* key of the lock a later TrySync created.
C12_Witness ==
    /\ snap.taken
    /\ last.op = "TrySync"
    /\ last.lockID \in DOMAIN locks
    /\ last.lockID \notin DOMAIN snap.m
    /\ \E id \in DOMAIN snap.m : id \notin DOMAIN locks

----------------------------------------------------------------------------
\* The store: change reports, operations and table sets under their keys,
\* and the revision, which every write transaction raises by one.

MaxRevision == 3

\* The store as one value.
Kv == [infos |-> infos, sts |-> etcd.sts, ops |-> etcd.ops, rev |-> etcd.rev]

\* NewInfo(task, source, "foo-1", "bar-1", "foo", "bar", DDLs, nil, nil).
StoreInfo(s) ==
    [Task |-> LockTask, Source |-> s, UpSchema |-> "foo-1", UpTable |-> "bar-1",
     DownSchema |-> "foo", DownTable |-> "bar",
     DDLs |-> <<"ALTER TABLE bar ADD COLUMN c1 INT">>,
     TableInfoBefore |-> Nil, TableInfoAfter |-> Nil]

\* NewOperation("test-ID", task, source, "foo-1", "bar-1", DDLs, ConflictResolved, false).
StoreOperation(s) ==
    [ID |-> "test-ID", Task |-> LockTask, Source |-> s, UpSchema |-> "foo-1",
     UpTable |-> "bar-1", DDLs |-> <<"ALTER TABLE bar ADD COLUMN c1 INT">>,
     ConflictStage |-> "resolved", Done |-> FALSE]

StoreSourceTables == {NewSourceTables(LockTask, s, tv) : s \in Sources, tv \in TablesValues}

OpKey(op) == <<op.Task, op.Source, op.UpSchema, op.UpTable>>

STKey(st) == <<st.Task, st.Source>>

\* A read's result: the values under a prefix as nested maps, one level for
\* every component of the key.
Nest2(m) ==
    [a \in {k[1] : k \in DOMAIN m} |->
        [b \in {k[2] : k \in {x \in DOMAIN m : x[1] = a}} |-> m[<<a, b>>]]]

Nest4(m) ==
    [a \in {k[1] : k \in DOMAIN m} |->
        [b \in {k[2] : k \in {x \in DOMAIN m : x[1] = a}} |->
            [c \in {k[3] : k \in {x \in DOMAIN m : x[1] = a /\ x[2] = b}} |->
                [d \in {k[4] : k \in {x \in DOMAIN m : /\ x[1] = a /\ x[2] = b
                                                        /\ x[3] = c}} |->
                    m[<<a, b, c, d>>]]]]]

\* The map without the keys ks.
MapDeleteAll(m, ks) == [k \in DOMAIN m \ ks |-> m[k]]

\* Every write is one transaction: the store afterwards and the revision
\* the write returns.
EtcdPutInfo(kv, info) ==
    [kv |-> [kv EXCEPT !.infos = MapPut(@, InfoKey(info), info), !.rev = @ + 1],
     rev |-> kv.rev + 1]

EtcdPutOperation(kv, op) ==
    [kv |-> [kv EXCEPT !.ops = MapPut(@, OpKey(op), op), !.rev = @ + 1],
     rev |-> kv.rev + 1]

\* A batch delete that deletes the reports and leaves the operations.
MutDeleteInfosOnly(kv, is, os) ==
    [kv |-> [kv EXCEPT !.infos = MapDeleteAll(@, {InfoKey(i) : i \in is}),
                       !.rev = @ + 1],
     rev |-> kv.rev + 1]

EtcdDeleteInfosOperations(kv, is, os) ==
    [kv |-> [kv EXCEPT !.infos = MapDeleteAll(@, {InfoKey(i) : i \in is}),
                       !.ops = MapDeleteAll(@, {OpKey(o) : o \in os}),
                       !.rev = @ + 1],
     rev |-> kv.rev + 1]

\* A joint put made of two writes, which returns the revision of the first.
MutPutSourceTablesInfoTwoWrites(kv, st, info) ==
    [kv |-> [kv EXCEPT !.sts = MapPut(@, STKey(st), st),
                       !.infos = MapPut(@, InfoKey(info), info),
                       !.rev = @ + 2],
     rev |-> kv.rev + 1]

EtcdPutSourceTablesInfo(kv, st, info) ==
    [kv |-> [kv EXCEPT !.sts = MapPut(@, STKey(st), st),
                       !.infos = MapPut(@, InfoKey(info), info),
                       !.rev = @ + 1],
     rev |-> kv.rev + 1]

EtcdPutSourceTablesDeleteInfo(kv, st, info) ==
    [kv |-> [kv EXCEPT !.sts = MapPut(@, STKey(st), st),
                       !.infos = MapDelete(@, InfoKey(info)),
                       !.rev = @ + 1],
     rev |-> kv.rev + 1]

\* Every read returns the values under its prefix and the store's revision.
EtcdGetAllInfo(kv) == [ret |-> Nest4(kv.infos), rev |-> kv.rev]

EtcdGetAllOperations(kv) == [ret |-> Nest4(kv.ops), rev |-> kv.rev]

EtcdGetAllSourceTables(kv) == [ret |-> Nest2(kv.sts), rev |-> kv.rev]

\* A write takes effect: w is what was written, r the store and the revision
\* returned.
Commit(r, w) ==
    /\ etcd.rev < MaxRevision
    /\ infos' = r.kv.infos
    /\ etcd' = [rev |-> r.kv.rev, sts |-> r.kv.sts, ops |-> r.kv.ops,
                write |-> [w EXCEPT !.rev = r.rev]]
    /\ last' = [op |-> w.op, rev |-> r.rev]
    /\ UNCHANGED <<locks, tables, replay, snap, mu, calls>>

Read(op, r) ==
    /\ last' = [op |-> op, ret |-> r.ret, rev |-> r.rev]
    /\ UNCHANGED <<locks, tables, infos, replay, snap, etcd, mu, calls>>

PutInfo(info) ==
    Commit(EtcdPutInfo(Kv, info), [op |-> "PutInfo", rev |-> 0])

PutOperation(op) ==
    Commit(EtcdPutOperation(Kv, op), [op |-> "PutOperation", rev |-> 0])

DeleteInfosOperations(is, os) ==
    Commit(EtcdDeleteInfosOperations(Kv, is, os),
           [op |-> "DeleteInfosOperations", infos |-> is, ops |-> os, rev |-> 0])

PutSourceTablesInfo(st, info) ==
    Commit(EtcdPutSourceTablesInfo(Kv, st, info),
           [op |-> "PutSourceTablesInfo", st |-> st, info |-> info, rev |-> 0])

PutSourceTablesDeleteInfo(st, info) ==
    Commit(EtcdPutSourceTablesDeleteInfo(Kv, st, info),
           [op |-> "PutSourceTablesDeleteInfo", st |-> st, info |-> info, rev |-> 0])

GetAllInfo == Read("GetAllInfo", EtcdGetAllInfo(Kv))

GetAllOperations == Read("GetAllOperations", EtcdGetAllOperations(Kv))

GetAllSourceTables == Read("GetAllSourceTables", EtcdGetAllSourceTables(Kv))

NextStore ==
    \/ \E s \in Sources : PutInfo(StoreInfo(s))
    \/ \E s \in Sources : PutOperation(StoreOperation(s))
    \/ \E ss \in SUBSET Sources \ {{}} :
          DeleteInfosOperations({StoreInfo(s) : s \in ss},
                                {StoreOperation(s) : s \in ss})
    \/ \E st \in StoreSourceTables : PutSourceTablesInfo(st, StoreInfo(st.Source))
    \/ \E st \in StoreSourceTables : PutSourceTablesDeleteInfo(st, StoreInfo(st.Source))
    \/ GetAllInfo
    \/ GetAllOperations
    \/ GetAllSourceTables

SpecStore == InitTables /\ [][NextStore]_vars

\* The two joint writes of a table set with a change report.
JointWrites == {"PutSourceTablesInfo", "PutSourceTablesDeleteInfo"}

\* What a read of all change reports shows of a report: the report, or Nil.
InfoIn(ifm, i) ==
    IF /\ i.Task \in DOMAIN ifm
       /\ i.Source \in DOMAIN ifm[i.Task]
       /\ i.UpSchema \in DOMAIN ifm[i.Task][i.Source]
       /\ i.UpTable \in DOMAIN ifm[i.Task][i.Source][i.UpSchema]
    THEN ifm[i.Task][i.Source][i.UpSchema][i.UpTable]
    ELSE Nil

\* C13: after a joint write of a table set with a change report (put and put,
\* or put and delete) and before any other write, the store holds both
\* effects, a read of all table sets and a read of all change reports return
\* the revision the write returned and show the write's effect, and the next
\* write returns a greater revision.
C13_JointWrite ==
    /\ [](etcd.write.op \in JointWrites =>
            LET w == etcd.write
            IN /\ STKey(w.st) \in DOMAIN etcd.sts
               /\ etcd.sts[STKey(w.st)] = w.st
               /\ w.op = "PutSourceTablesInfo" =>
                     /\ InfoKey(w.info) \in DOMAIN infos
                     /\ infos[InfoKey(w.info)] = w.info
               /\ w.op = "PutSourceTablesDeleteInfo" =>
                     InfoKey(w.info) \notin DOMAIN infos
               /\ last.op = "GetAllSourceTables" =>
                     /\ last.rev = w.rev
                     /\ w.st.Task \in DOMAIN last.ret
                     /\ w.st.Source \in DOMAIN last.ret[w.st.Task]
                     /\ last.ret[w.st.Task][w.st.Source] = w.st
               /\ last.op = "GetAllInfo" =>
                     /\ last.rev = w.rev
                     /\ InfoIn(last.ret, w.info) =
                           IF w.op = "PutSourceTablesInfo" THEN w.info ELSE Nil)
    /\ [][(etcd.write.op \in JointWrites /\ etcd'.write # etcd.write) =>
             etcd'.write.rev > etcd.write.rev]_vars

\* A joint put-and-delete followed a joint put-and-put of the same source, and
\* the change reports were read after it.
C13_Witness ==
    /\ etcd.write.op = "PutSourceTablesDeleteInfo"
    /\ etcd.write.rev >= 2
    /\ etcd.write.st.Tables = FullTables
    /\ last.op = "GetAllInfo"
    /\ last.rev = etcd.write.rev
    /\ infos # EmptyMap

C15_Clear ==
    last.op = "Clear" =>
        /\ Cardinality(DOMAIN locks) = 0
        /\ \A id \in LockIDs : FindLock(locks, id) = NilLock
        /\ LockKeeperLocks(locks).m = EmptyMap
        /\ \A info \in InfoInputs :
              CanSync(info) =>
                 LET r == SyncResult(info)
                     l == FindLock(r.locks, r.lockID)
                 IN /\ DOMAIN r.locks = {genDDLLockID(info)}
                    /\ l # NilLock
                    /\ l.joined = IF Extends(info.TableInfoAfter, info.TableInfoBefore)
                                  THEN info.TableInfoAfter
                                  ELSE info.TableInfoBefore
                    /\ DOMAIN l.status = SourcesOfTask(tables, info.Task)
                    /\ \A s \in DOMAIN l.status \ {info.Source} : ~l.status[s]

\* Clear discarded the locks of both downstream tables.
C15_Witness ==
    /\ last.op = "Clear"
    /\ Cardinality(last.discarded) >= 2
    /\ locks = EmptyMap

----------------------------------------------------------------------------
\* The LockKeeper's methods statement by statement, one goroutine for every
\* source, all under LockKeeper.mu.

\* mu.Lock() returns when no goroutine holds or read-holds the mutex.
MutCanLockAlways(m) == TRUE

MutCanLockAmongWriters(m) == m.readers = {}

CanLock(m) == m.writer = None /\ m.readers = {}

\* mu.RLock() returns when no goroutine holds the mutex.
CanRLock(m) == m.writer = None

Writers == {"TrySync", "RemoveLock", "Clear"}

Readers == {"FindLock", "Locks"}

\* The calls goroutine p may make: TrySync with a report of its source, and
\* the other methods.
CallsOf(p) ==
    {[pc |-> "lock", op |-> "TrySync", info |-> i, lockID |-> genDDLLockID(i)] :
        i \in {j \in SnapshotInfos : j.Source = p}}
    \cup {[pc |-> "lock", op |-> o, lockID |-> id] :
             o \in {"RemoveLock", "FindLock"}, id \in LockIDs}
    \cup {[pc |-> "lock", op |-> o] : o \in {"Locks", "Clear"}}

\* The goroutines other than q that hold the pointer to the lock of one of
\* ids lose the registry's lock: theirs stays as it is now, in no map.
Orphan(cs, q, ids) ==
    [p \in Procs |->
        IF /\ p # q
           /\ cs[p].pc = "trysync"
           /\ cs[p].lockID \in ids
           /\ ~cs[p].stale
        THEN [cs[p] EXCEPT !.stale = TRUE, !.l = locks[cs[p].lockID]]
        ELSE cs[p]]

\* p enters a method; TrySync computes lockID before it takes the mutex.
Call(p, c) ==
    /\ calls[p].pc = "idle"
    /\ calls' = [calls EXCEPT ![p] = c]
    /\ UNCHANGED <<locks, tables, last, infos, replay, snap, etcd, mu>>

\* lk.mu.Lock()
Acquire(p) ==
    /\ calls[p].pc = "lock"
    /\ calls[p].op \in Writers
    /\ CanLock(mu)
    /\ mu' = [mu EXCEPT !.writer = p]
    /\ calls' = [calls EXCEPT ![p] =
                    IF calls[p].op = "TrySync"
                    THEN [pc |-> "lookup", op |-> "TrySync", info |-> calls[p].info,
                          lockID |-> calls[p].lockID, at |-> locks]
                    ELSE [@ EXCEPT !.pc = "body"]]
    /\ UNCHANGED <<locks, tables, last, infos, replay, snap, etcd>>

\* lk.mu.RLock()
RAcquire(p) ==
    /\ calls[p].pc = "lock"
    /\ calls[p].op \in Readers
    /\ CanRLock(mu)
    /\ mu' = [mu EXCEPT !.readers = @ \cup {p}]
    /\ calls' = [calls EXCEPT ![p].pc = "body"]
    /\ UNCHANGED <<locks, tables, last, infos, replay, snap, etcd>>

\* l, ok = lk.locks[lockID]
Lookup(p) ==
    /\ calls[p].pc = "lookup"
    /\ calls' = [calls EXCEPT ![p] =
                    [pc |-> IF calls[p].lockID \in DOMAIN locks
                            THEN "trysync" ELSE "create",
                     op |-> "TrySync", info |-> calls[p].info,
                     lockID |-> calls[p].lockID, at |-> calls[p].at,
                     stale |-> FALSE, l |-> NilLock]]
    /\ UNCHANGED <<locks, tables, last, infos, replay, snap, etcd, mu>>

\* lk.locks[lockID] = NewLock(...); l = lk.locks[lockID]
Create(p) ==
    /\ calls[p].pc = "create"
    /\ LET c == calls[p]
       IN /\ locks' = MapPut(locks, c.lockID,
                             NewLock(c.lockID, c.info.Task, c.info.TableInfoBefore,
                                     CurrentTableSets(c.info.Task)))
          /\ calls' = [Orphan(calls, p, {c.lockID} \cap DOMAIN locks)
                          EXCEPT ![p].pc = "trysync"]
    /\ UNCHANGED <<tables, last, infos, replay, snap, etcd, mu>>

\* newDDLs, err := l.TrySync(...): on the lock that l points to.
LockTrySyncStep(p) ==
    /\ calls[p].pc = "trysync"
    /\ LET c == calls[p]
           r == LockTrySync(IF c.stale THEN c.l ELSE locks[c.lockID],
                            c.info.Source, c.info.UpSchema, c.info.UpTable,
                            c.info.DDLs, c.info.TableInfoAfter,
                            CurrentTableSets(c.info.Task))
       IN /\ locks' = IF c.stale THEN locks
                      ELSE [locks EXCEPT ![c.lockID] = r.lock]
          /\ calls' = [calls EXCEPT ![p] =
                          [pc |-> "unlock", op |-> "TrySync", info |-> c.info,
                           lockID |-> c.lockID, at |-> c.at, stale |-> c.stale,
                           ret |-> [lockID |-> c.lockID, newDDLs |-> r.newDDLs,
                                    err |-> r.err]]]
    /\ UNCHANGED <<tables, last, infos, replay, snap, etcd, mu>>

\* _, ok := lk.locks[lockID]; delete(lk.locks, lockID)
RemoveBody(p) ==
    /\ calls[p].pc = "body"
    /\ calls[p].op = "RemoveLock"
    /\ LET r == LockKeeperRemoveLock(locks, calls[p].lockID)
       IN /\ locks' = r.locks
          /\ calls' = [Orphan(calls, p, {calls[p].lockID} \cap DOMAIN locks)
                          EXCEPT ![p] = [pc |-> "unlock", op |-> "RemoveLock",
                                         ret |-> r.ret]]
    /\ UNCHANGED <<tables, last, infos, replay, snap, etcd, mu>>

\* lk.locks = make(map[string]*Lock)
ClearBody(p) ==
    /\ calls[p].pc = "body"
    /\ calls[p].op = "Clear"
    /\ locks' = LockKeeperClear(locks)
    /\ calls' = [Orphan(calls, p, DOMAIN locks \ DOMAIN locks')
                    EXCEPT ![p] = [pc |-> "unlock", op |-> "Clear"]]
    /\ UNCHANGED <<tables, last, infos, replay, snap, etcd, mu>>

\* return lk.locks[lockID]
FindBody(p) ==
    /\ calls[p].pc = "body"
    /\ calls[p].op = "FindLock"
    /\ calls' = [calls EXCEPT ![p] = [pc |-> "unlock", op |-> "FindLock",
                                      ret |-> FindLock(locks, calls[p].lockID)]]
    /\ UNCHANGED <<locks, tables, last, infos, replay, snap, etcd, mu>>

\* the loop that copies lk.locks
LocksBody(p) ==
    /\ calls[p].pc = "body"
    /\ calls[p].op = "Locks"
    /\ calls' = [calls EXCEPT ![p] = [pc |-> "unlock", op |-> "Locks",
                                      ret |-> LockKeeperLocks(locks).m]]
    /\ UNCHANGED <<locks, tables, last, infos, replay, snap, etcd, mu>>

\* The deferred Unlock or RUnlock, and the return.
Release(p) ==
    /\ calls[p].pc = "unlock"
    /\ mu' = IF calls[p].op \in Writers
             THEN [mu EXCEPT !.writer = IF @ = p THEN None ELSE @]
             ELSE [mu EXCEPT !.readers = @ \ {p}]
    /\ calls' = [calls EXCEPT ![p] = Idle]
    /\ UNCHANGED <<locks, tables, last, infos, replay, snap, etcd>>

NextConc ==
    \E p \in Procs :
        \/ \E c \in CallsOf(p) : Call(p, c)
        \/ Acquire(p)
        \/ RAcquire(p)
        \/ Lookup(p)
        \/ Create(p)
        \/ LockTrySyncStep(p)
        \/ RemoveBody(p)
        \/ ClearBody(p)
        \/ FindBody(p)
        \/ LocksBody(p)
        \/ Release(p)

SpecConc == Init /\ [][NextConc]_vars

\* p is between the Lock and the Unlock of a TrySync.
InTrySync(p) ==
    /\ calls[p].pc \in {"lookup", "create", "trysync", "unlock"}
    /\ calls[p].op = "TrySync"

\* p is between taking and releasing the mutex, in any method.
Inside(p) == calls[p].pc \notin {"idle", "lock"}

\* p waits for the mutex with a TrySync.
WaitsToSync(p) == calls[p].pc = "lock" /\ calls[p].op = "TrySync"

\* C16: under every interleaving, a TrySync runs its lookup-or-create and its
\* l.TrySync as one unit under the mutex: no other method and no other
\* TrySync is inside meanwhile, the lock it creates overwrites none, the lock
\* it synchronizes is the registry's, and when it returns the registry and
\* the values returned are those of the whole TrySync applied to the registry
\* as it was when the call took the mutex.
C16_Serialized ==
    \A p \in Procs :
        InTrySync(p) =>
            LET c == calls[p]
            IN /\ mu.writer = p
               /\ \A q \in Procs \ {p} : ~Inside(q)
               /\ c.pc = "create" => c.lockID \notin DOMAIN locks
               /\ c.pc \in {"trysync", "unlock"} =>
                     /\ ~c.stale
                     /\ c.lockID \in DOMAIN locks
               /\ c.pc = "unlock" =>
                     LET r == LockKeeperTrySync(c.at, c.info,
                                                CurrentTableSets(c.info.Task))
                     IN /\ locks = r.locks
                        /\ c.ret.lockID = r.lockID
                        /\ c.ret.newDDLs = r.newDDLs
                        /\ c.ret.err = r.err

\* One goroutine has created the lock of a downstream table and is about to
\* synchronize it, while another waits with a report of the same table.
C16_Witness ==
    \E p, q \in Procs :
        /\ p # q
        /\ calls[p].pc = "trysync"
        /\ calls[p].lockID \notin DOMAIN calls[p].at
        /\ WaitsToSync(q)
        /\ calls[q].lockID = calls[p].lockID

\* C17 as claimed: a TrySync for one downstream table does not wait for a
\* TrySync that is inside l.TrySync for another downstream table.
C17_ParallelTables ==
    \A p, q \in Procs :
        (/\ p # q
         /\ calls[p].pc = "trysync"
         /\ WaitsToSync(q)
         /\ calls[q].lockID # calls[p].lockID) => CanLock(mu)

\* C17 as amended: at most one goroutine is inside l.TrySync, whatever the
\* downstream tables; the locks of different downstream tables share no
\* state: a TrySync returns with every other lock of the registry as it was.
C17_SerializedTables ==
    /\ \A p, q \in Procs :
          (calls[p].pc = "trysync" /\ calls[q].pc = "trysync") => p = q
    /\ \A p \in Procs :
          (calls[p].pc = "unlock" /\ calls[p].op = "TrySync") =>
             \A id \in DOMAIN calls[p].at \ {calls[p].lockID} :
                 /\ id \in DOMAIN locks
                 /\ locks[id] = calls[p].at[id]

\* A goroutine is about to return from a TrySync for one downstream table
\* with the lock of the other table in the registry, while another goroutine
\* waits with a report for that other table.
C17_Witness ==
    \E p, q \in Procs :
        /\ p # q
        /\ calls[p].pc = "unlock"
        /\ calls[p].op = "TrySync"
        /\ DOMAIN calls[p].at \ {calls[p].lockID} # {}
        /\ WaitsToSync(q)
        /\ calls[q].lockID # calls[p].lockID

\* C18: TrySync returns the lock identifier on every call, with a conflict
\* too; for an identifier the registry lacked, the lock made from the
\* report's pre-change schema is in the registry after the call, with an
\* error too; for one it held, the lock is reused and the report's pre-change
\* schema is not read: the report is judged against the lock's joined schema.
C18_AlwaysLockID ==
    \A info \in InfoInputs :
        CanSync(info) =>
            LET id == genDDLLockID(info)
                r == SyncResult(info)
            IN /\ r.lockID = id
               /\ id \in DOMAIN r.locks
               /\ DOMAIN r.locks = DOMAIN locks \cup {id}
               /\ id \notin DOMAIN locks =>
                     /\ r.err = Nil <=>
                           Extends(info.TableInfoAfter, info.TableInfoBefore)
                     /\ r.err # Nil =>
                           r.locks[id].joined = info.TableInfoBefore
               /\ id \in DOMAIN locks =>
                     /\ r.err = Nil <=>
                           Extends(info.TableInfoAfter, locks[id].joined)
                     /\ r.err # Nil => r.locks[id].joined = locks[id].joined
                     /\ info.TableInfoAfter = locks[id].joined =>
                           \A s \in DOMAIN locks[id].status \ {info.Source} :
                               r.locks[id].status[s] = locks[id].status[s]

\* The last report conflicted with its own pre-change schema: the lock made
\* for it is in the registry, with that schema and no source reconciled.
C18_Witness ==
    /\ last.op = "TrySync"
    /\ last.err = ErrConflict
    /\ last.lockID \in DOMAIN locks
    /\ locks[last.lockID].joined # EmptyMap
    /\ \A s \in DOMAIN locks[last.lockID].status : ~locks[last.lockID].status[s]

\* One report for every lock identifier.
InfoOf == [id \in LockIDs |-> CHOOSE i \in InfoInputs : genDDLLockID(i) = id]

\* C19: TrySync removes no lock: the identifiers of the registry only grow
\* under TrySync, and a synchronized lock stays in the registry, found by
\* FindLock and FindLockByInfo and in the map of Locks, in every step that is
\* not RemoveLock of its identifier or Clear.
C19_NeverRetires ==
    [][/\ last'.op = "TrySync" => DOMAIN locks \subseteq DOMAIN locks'
       /\ \A id \in DOMAIN locks :
             (/\ Synced(locks[id])
              /\ last'.op # "Clear"
              /\ ~(last'.op = "RemoveLock" /\ last'.lockID = id)) =>
                 /\ FindLock(locks', id) # NilLock
                 /\ FindLockByInfo(locks', InfoOf[id]) # NilLock
                 /\ id \in DOMAIN LockKeeperLocks(locks').m]_vars

\* The last call was a TrySync, and the locks of both downstream tables are
\* synchronized and in the registry.
C19_Witness ==
    /\ last.op = "TrySync"
    /\ Cardinality(DOMAIN locks) >= 2
    /\ \A id \in DOMAIN locks : Synced(locks[id])

\* The sources of the table sets that FindTables returns.
ListedSources(seq) == {seq[i].Source : i \in DOMAIN seq}

\* C20: a removal in the table registry never deletes the enclosing entry.
\* After a tombstone removed the last source of a task the task is still
\* known: AddTable for it returns true and creates the source. After
\* RemoveTable the (task, source) entries are those of before, one left
\* without a table included, and FindTables returns them all. A known task
\* becomes unknown in an Init only.
C20_RemovalsKeepEntries ==
    [][/\ \A t \in DOMAIN tables : t \notin DOMAIN tables' => last'.op = "Init"
       /\ (last'.op = "Update" /\ last'.deleted /\ last'.ret) =>
             /\ last'.task \in DOMAIN tables'
             /\ SourcesOfTask(tables', last'.task) = {} =>
                   \A s \in Sources, sc \in UpSchemas, tb \in UpTables :
                       LET r == TableKeeperAddTable(tables', last'.task, s, sc, tb)
                       IN /\ r.ret = TRUE
                          /\ HasTable(r.tables, last'.task, s, sc, tb)
       /\ (last'.op = "RemoveTable" /\ last'.ret) =>
             /\ SourcesOfTask(tables', last'.task) = SourcesOfTask(tables, last'.task)
             /\ \A o \in OrdersOfTask(tables', last'.task) :
                   ListedSources(TableKeeperFindTables(tables', last'.task, o))
                      = SourcesOfTask(tables, last'.task)]_vars

\* A tombstone has removed the last source of a task, which is still known.
C20_Witness ==
    /\ last.op = "Update"
    /\ last.deleted
    /\ last.ret = TRUE
    /\ last.task \in DOMAIN tables
    /\ SourcesOfTask(tables, last.task) = {}

====
